---- MODULE Spec2Model ----
(***************************************************************************)
(* adbfs: a FUSE filesystem over adb.  This module models these parts of   *)
(* the repository, each under its own specification:                       *)
(*   SpecDecoder  the directory-listing wire decoder (DirEntries)          *)
(*   SpecClient   goadbDeviceClient and its disconnect notification        *)
(*   SpecUnmount  unmountServer / handleDeviceDisconnected in main         *)
(*   SpecCache    CachingDeviceClient over the directory-entry cache       *)
(*   SpecWrite    OpenWrite, the sink's Close and deferred cache removal   *)
(*   SpecFlight   concurrent ListDirEntries calls for one directory        *)
(*   SpecLog      the methods of one LogEntry                              *)
(*   SpecEntries  NewCachedDirEntries over every short listing             *)
(***************************************************************************)
EXTENDS Integers, Sequences, FiniteSets, TLC

VARIABLES
    stream,     \* decoder: the records the scanner's peer sends
    failAt,     \* decoder: <<record index, field>> of the read that fails, or NoFail
    closedReads,\* decoder: what a read on a closed scanner does ("fail" / "pass")
    scanner,    \* decoder: wire.SyncScanner state (position, reads, Close calls)
    entries,    \* decoder: the DirEntries object (currentEntry, err)
    history     \* decoder: one record per Next()/Close() call made so far

decoderVars == <<stream, failAt, closedReads, scanner, entries, history>>

VARIABLES
    handlerSet,   \* client: deviceDisconnectedHandler is non-nil
    handlerCalls, \* client: invocations of deviceDisconnectedHandler so far
    clientCalls   \* client: one record per goadbDeviceClient call made so far

clientVars == <<handlerSet, handlerCalls, clientCalls>>

VARIABLES
    unmounted,    \* main: the AtomicBool guarding unmount
    unmountCalls, \* main: calls of server.Unmount() so far
    pc            \* main: where main and each disconnect goroutine stand

unmountVars == <<unmounted, unmountCalls, pc>>

VARIABLES
    device,  \* cache: the listing of directory /d on the device
    cache,   \* cache: the DirEntryCache, key -> entry
    ttl,     \* cache: the cache's time to live
    now,     \* cache: the clock
    lastOp,  \* cache: the last CachingDeviceClient call and what it did
    sink,    \* cache: the write sink that is open, if any
    grace,   \* cache: how long RemoveEventually may defer a removal
    pending, \* cache: the deferred removals not yet carried out
    closeInfo \* cache: the directory and cache entry the last sink Close invalidated

writeVars == <<sink, grace, pending, closeInfo>>

cacheVars == <<device, cache, ttl, now, lastOp, writeVars>>

VARIABLES
    logEntry,  \* log: the LogEntry of one operation
    logCalls   \* log: one record per method called on it so far

logVars == <<logEntry, logCalls>>

VARIABLES
    listed,   \* entries: the listing handed to NewCachedDirEntries
    built     \* entries: the CachedDirEntries it returned, once it has

entriesVars == <<listed, built>>

VARIABLES
    callers,  \* flight: each concurrent ListDirEntries call, where it stands and its result
    loads     \* flight: invocations of the loader so far

flightVars == <<callers, loads>>

vars == <<decoderVars, clientVars, unmountVars, cacheVars, logVars, entriesVars, flightVars>>

notDecoder == <<clientVars, unmountVars, cacheVars, logVars, entriesVars, flightVars>>
notClient == <<decoderVars, unmountVars, cacheVars, logVars, entriesVars, flightVars>>
notUnmount == <<decoderVars, clientVars, cacheVars, logVars, entriesVars, flightVars>>
notCache == <<decoderVars, clientVars, unmountVars, logVars, entriesVars, flightVars>>
notLog == <<decoderVars, clientVars, unmountVars, cacheVars, entriesVars, flightVars>>
notEntries == <<decoderVars, clientVars, unmountVars, cacheVars, logVars, flightVars>>
notFlight == <<decoderVars, clientVars, unmountVars, logVars, entriesVars>>

(***************************************************************************)
(* Bounds                                                                  *)
(***************************************************************************)
MaxRecords == 3
MaxCalls == 4
MaxClientCalls == 2
MaxHandlers == 3
MaxTime == 3
MaxTtl == 2
MaxGrace == 1
MaxOpens == 2
MaxLogCalls == 3
MaxListing == 3
MaxThreads == 3

(***************************************************************************)
(* Errors.  nil is NoErr; every error is a record of the same shape.       *)
(***************************************************************************)
NoErr == [kind |-> "nil", field |-> "", cause |-> "", tag |-> ""]

\* An error returned by the scanner itself (the transport).
TransportErr(cause) == [kind |-> "transport", field |-> "", cause |-> cause, tag |-> ""]

\* fmt.Errorf("error reading dir entries: error reading file <field>: %v", err)
WrappedErr(field, err) == [kind |-> "wrapped", field |-> field, cause |-> err.cause, tag |-> ""]

\* fmt.Errorf("... expected dir entry ID 'DENT', but got '%s'", id)
ProtocolErr(id) == [kind |-> "protocol", field |-> "", cause |-> "", tag |-> id]

(***************************************************************************)
(* The wire decoder.  Strings that the program takes apart (names, paths)  *)
(* are sequences of one-character strings.                                 *)
(***************************************************************************)
\* A nil *DirEntry.
NilEntry == [Name |-> <<>>, Mode |-> "<nil>", Size |-> -1, ModifiedAt |-> -1]

DirEntry(name, mode, size, mtime) ==
    [Name |-> name, Mode |-> mode, Size |-> size, ModifiedAt |-> mtime]

\* The entries a device may report in the decoder model.
SampleEntries == { DirEntry(<<"a">>, "file", 10, 100), DirEntry(<<"b">>, "dir", 20, 200) }

Tags == {"DENT", "DONE", "FAIL"}
Fields == {"id", "mode", "size", "time", "name"}
NoFail == <<0, "none">>

\* A record on the wire: a 4-character tag and, for DENT, the four fields.
WireRecords ==
    { [id |-> "DENT", entry |-> e] : e \in SampleEntries }
        \cup { [id |-> t, entry |-> NilEntry] : t \in {"DONE", "FAIL"} }

SeqsUpTo(S, n) == UNION { [1..k -> S] : k \in 0..n }

\* One primitive read of the scanner: field f of record i.  It fails when
\* the scanner is closed (and closed scanners fail), when the stream has
\* ended, or when the transport fails at this very read.
ReadFails(s, i, f) ==
    \/ s.closed > 0 /\ closedReads = "fail"
    \/ i > Len(stream)
    \/ failAt = <<i, f>>

ReadCause(s, i, f) ==
    IF s.closed > 0 /\ closedReads = "fail" THEN "closed"
    ELSE IF i > Len(stream) THEN "EOF"
    ELSE "io"

\* readNextDirListEntry without the DONE test: the end-of-listing tag is
\* taken for an unexpected entry id.
readNextDirListEntry_NoDone(s) ==
    LET i == s.pos
        after(n) == [s EXCEPT !.pos = i + 1, !.reads = s.reads + n]
        res(entry, done, err, n) ==
            [entry |-> entry, done |-> done, err |-> err, scanner |-> after(n)]
        terr(f) == TransportErr(ReadCause(s, i, f))
    IN  IF ReadFails(s, i, "id") THEN res(NilEntry, FALSE, terr("id"), 1)
        ELSE IF stream[i].id # "DENT" THEN res(NilEntry, FALSE, ProtocolErr(stream[i].id), 1)
        ELSE IF ReadFails(s, i, "mode") THEN res(NilEntry, FALSE, WrappedErr("mode", terr("mode")), 2)
        ELSE IF ReadFails(s, i, "size") THEN res(NilEntry, FALSE, WrappedErr("size", terr("size")), 3)
        ELSE IF ReadFails(s, i, "time") THEN res(NilEntry, FALSE, WrappedErr("time", terr("time")), 4)
        ELSE IF ReadFails(s, i, "name") THEN res(NilEntry, FALSE, WrappedErr("name", terr("name")), 5)
        ELSE res(stream[i].entry, FALSE, NoErr, 5)

\* readNextDirListEntry: reads one record.  The result carries the scanner
\* state after the reads that were made.
readNextDirListEntry(s) ==
    LET i == s.pos
        after(n) == [s EXCEPT !.pos = i + 1, !.reads = s.reads + n]
        res(entry, done, err, n) ==
            [entry |-> entry, done |-> done, err |-> err, scanner |-> after(n)]
        terr(f) == TransportErr(ReadCause(s, i, f))
    IN  IF ReadFails(s, i, "id") THEN res(NilEntry, FALSE, terr("id"), 1)
        ELSE IF stream[i].id = "DONE" THEN res(NilEntry, TRUE, NoErr, 1)
        ELSE IF stream[i].id # "DENT" THEN res(NilEntry, FALSE, ProtocolErr(stream[i].id), 1)
        ELSE IF ReadFails(s, i, "mode") THEN res(NilEntry, FALSE, WrappedErr("mode", terr("mode")), 2)
        ELSE IF ReadFails(s, i, "size") THEN res(NilEntry, FALSE, WrappedErr("size", terr("size")), 3)
        ELSE IF ReadFails(s, i, "time") THEN res(NilEntry, FALSE, WrappedErr("time", terr("time")), 4)
        ELSE IF ReadFails(s, i, "name") THEN res(NilEntry, FALSE, WrappedErr("name", terr("name")), 5)
        ELSE res(stream[i].entry, FALSE, NoErr, 5)

\* scanner.Close()
ScannerClose(s) == [s EXCEPT !.closed = s.closed + 1]

\* Next() without the test of entries.err at its head: a terminated
\* decoder reads the scanner again.
NextResult_NoErrCheck(e, s) ==
    LET r == readNextDirListEntry(s)
    IN  IF r.err # NoErr
        THEN [ret |-> FALSE,
              entries |-> [e EXCEPT !.err = r.err],
              scanner |-> ScannerClose(r.scanner)]
        ELSE IF r.done
        THEN [ret |-> FALSE,
              entries |-> [e EXCEPT !.currentEntry = r.entry],
              scanner |-> ScannerClose(r.scanner)]
        ELSE [ret |-> TRUE,
              entries |-> [e EXCEPT !.currentEntry = r.entry],
              scanner |-> r.scanner]

\* The outcome of DirEntries.Next() on decoder state e over scanner s.
NextResult(e, s) ==
    IF e.err # NoErr
    THEN [ret |-> FALSE, entries |-> e, scanner |-> s]
    ELSE LET r == readNextDirListEntry(s)
         IN  IF r.err # NoErr
             THEN [ret |-> FALSE,
                   entries |-> [e EXCEPT !.err = r.err],
                   scanner |-> ScannerClose(r.scanner)]
             ELSE IF r.done
             THEN [ret |-> FALSE,
                   entries |-> [e EXCEPT !.currentEntry = r.entry],
                   scanner |-> ScannerClose(r.scanner)]
             ELSE [ret |-> TRUE,
                   entries |-> [e EXCEPT !.currentEntry = r.entry],
                   scanner |-> r.scanner]

\* What a caller observes of one call: its return value, Entry() and Err()
\* right after it, and the scanner reads and Close calls it made.
CallRecord(op, ret, e, s0, s1) ==
    [op |-> op, ret |-> ret, entry |-> e.currentEntry, err |-> e.err,
     reads |-> s1.reads - s0.reads, closes |-> s1.closed - s0.closed]

\* DirEntries.Next()
DirEntriesNext ==
    /\ Len(history) < MaxCalls
    /\ LET r == NextResult(entries, scanner)
       IN  /\ entries' = r.entries
           /\ scanner' = r.scanner
           /\ history' = Append(history,
                  CallRecord("Next", r.ret, r.entries, scanner, r.scanner))
    /\ UNCHANGED <<stream, failAt, closedReads>>
    /\ UNCHANGED notDecoder

\* DirEntries.Close()
DirEntriesClose ==
    /\ Len(history) < MaxCalls
    /\ scanner' = ScannerClose(scanner)
    /\ history' = Append(history,
           CallRecord("Close", FALSE, entries, scanner, scanner'))
    /\ UNCHANGED <<stream, failAt, closedReads, entries>>
    /\ UNCHANGED notDecoder

(***************************************************************************)
(* goadbDeviceClient                                                       *)
(***************************************************************************)
\* Errors of the adb library carry an error code.
AdbErr(code) == [kind |-> "adb", field |-> "", cause |-> code, tag |-> ""]

ErrCodes == {"DeviceNotFound", "FileNoExist"}

\* adb.HasErrCode(err, code); false for a nil error.
HasErrCode(err, code) == err.kind = "adb" /\ err.cause = code

\* What a call on the embedded *adb.Device returns: a value with a nil
\* error, or a nil value with an error.
DeviceOutcomes ==
    { [val |-> "value", err |-> NoErr] }
        \cup { [val |-> "nil", err |-> AdbErr(c)] : c \in ErrCodes }

\* What entries.ReadAll() returns: the whole listing, or the entries read
\* before an error together with that error.
ReadAllOutcomes ==
    { [val |-> "value", err |-> NoErr] }
        \cup { [val |-> v, err |-> AdbErr(c)] : v \in {"nil", "partial"}, c \in ErrCodes }

\* handleDeviceNotFound that swallows the error it was given.
handleDeviceNotFound_Swallow(err) ==
    [err |-> NoErr, handler |-> IF handlerSet THEN 1 ELSE 0]

\* handleDeviceNotFound: invokes the handler when one is registered and
\* returns the error unchanged.
handleDeviceNotFound(err) ==
    [err |-> err, handler |-> IF handlerSet THEN 1 ELSE 0]

\* The result of a client call: value and error returned to the caller,
\* handler invocations made, whether the DeviceNotFound branch was taken,
\* and the error of the underlying call.
ClientResult(val, err, handler, detected, underlying) ==
    [val |-> val, err |-> err, handler |-> handler, detected |-> detected,
     underlying |-> underlying]

\* goadbDeviceClient.OpenRead over the outcome u of Device.OpenRead.
goadbOpenRead(u) ==
    IF HasErrCode(u.err, "DeviceNotFound")
    THEN LET h == handleDeviceNotFound(u.err)
         IN  ClientResult("nil", h.err, h.handler, TRUE, u.err)
    ELSE ClientResult(u.val, u.err, 0, FALSE, u.err)

\* goadbDeviceClient.OpenWrite returns Device.OpenWrite's outcome as is.
goadbOpenWrite(u) == ClientResult(u.val, u.err, 0, FALSE, u.err)

\* goadbDeviceClient.Stat over the outcome u of Device.Stat.
goadbStat(u) ==
    IF HasErrCode(u.err, "DeviceNotFound")
    THEN LET h == handleDeviceNotFound(u.err)
         IN  ClientResult("nil", h.err, h.handler, TRUE, u.err)
    ELSE ClientResult(u.val, u.err, 0, FALSE, u.err)

\* goadbDeviceClient.ListDirEntries: Device.ListDirEntries (outcome u), the
\* DeviceNotFound test on its error, then entries.ReadAll() (outcome ra),
\* whose result is returned as is.
goadbListDirEntries(u, ra) ==
    IF u.err # NoErr
    THEN IF HasErrCode(u.err, "DeviceNotFound")
         THEN LET h == handleDeviceNotFound(u.err)
              IN  ClientResult("nil", u.err, h.handler, TRUE, u.err)
         ELSE ClientResult("nil", u.err, 0, FALSE, u.err)
    ELSE ClientResult(ra.val, ra.err, 0, FALSE, ra.err)

\* goadbDeviceClient defines no RunCommand: the call goes to the embedded
\* *adb.Device.
goadbRunCommand(u) == ClientResult(u.val, u.err, 0, FALSE, u.err)

\* One call completes: the handler invocations are counted and the call is
\* recorded.
ClientCall(op, r) ==
    /\ Len(clientCalls) < MaxClientCalls
    /\ handlerCalls' = handlerCalls + r.handler
    /\ clientCalls' = Append(clientCalls, [op |-> op, r |-> r])
    /\ UNCHANGED handlerSet
    /\ UNCHANGED notClient

ClientOpenRead == \E u \in DeviceOutcomes : ClientCall("OpenRead", goadbOpenRead(u))

ClientOpenWrite == \E u \in DeviceOutcomes : ClientCall("OpenWrite", goadbOpenWrite(u))

ClientStat == \E u \in DeviceOutcomes : ClientCall("Stat", goadbStat(u))

ClientListDirEntries ==
    \E u \in DeviceOutcomes, ra \in ReadAllOutcomes :
        ClientCall("ListDirEntries", goadbListDirEntries(u, ra))

ClientRunCommand == \E u \in DeviceOutcomes : ClientCall("RunCommand", goadbRunCommand(u))

(***************************************************************************)
(* main: unmountServer and handleDeviceDisconnected                        *)
(*                                                                         *)
(* pc[p] is "idle" (not started), "check" (goroutine about to read the     *)
(* flag), "cas" (in unmountServer, about to compare-and-swap), "unmount"   *)
(* (won the swap, about to call server.Unmount()), "returned" (its         *)
(* unmountServer call returned) or "skipped" (goroutine saw the flag set). *)
(* main is "idle" while it serves; when main has returned the process is   *)
(* gone and no goroutine takes another step.                               *)
(***************************************************************************)
\* main is process 0; the disconnect goroutines are 1..MaxHandlers.
Procs == 0..MaxHandlers

Handlers == 1..MaxHandlers

Alive == pc[0] # "returned"

\* AtomicBool.Value()
AtomicValue == unmounted

\* AtomicBool.CompareAndSwap(old, new): one atomic step.
CompareAndSwap(old, new) ==
    [swapped |-> unmounted = old,
     value |-> IF unmounted = old THEN new ELSE unmounted]

\* unmountServer with a plain test of the flag in place of the swap's
\* result: the flag is set, and Unmount is called by whoever gets here.
unmountServerSwap_Unguarded(p) ==
    /\ pc[p] = "cas"
    /\ Alive
    /\ unmounted' = TRUE
    /\ pc' = [pc EXCEPT ![p] = "unmount"]
    /\ UNCHANGED unmountCalls
    /\ UNCHANGED notUnmount

\* unmountServer, first half: the compare-and-swap and the branch on it.
unmountServerSwap(p) ==
    /\ pc[p] = "cas"
    /\ Alive
    /\ LET r == CompareAndSwap(FALSE, TRUE)
       IN  /\ unmounted' = r.value
           /\ pc' = [pc EXCEPT ![p] = IF r.swapped THEN "unmount" ELSE "returned"]
    /\ UNCHANGED unmountCalls
    /\ UNCHANGED notUnmount

\* unmountServer, second half: server.Unmount(), then return.
unmountServerUnmount(p) ==
    /\ pc[p] = "unmount"
    /\ Alive
    /\ unmountCalls' = unmountCalls + 1
    /\ pc' = [pc EXCEPT ![p] = "returned"]
    /\ UNCHANGED unmounted
    /\ UNCHANGED notUnmount

\* handleDeviceDisconnected: starts a goroutine.
handleDeviceDisconnected(h) ==
    /\ pc[h] = "idle"
    /\ Alive
    /\ pc' = [pc EXCEPT ![h] = "check"]
    /\ UNCHANGED <<unmounted, unmountCalls>>
    /\ UNCHANGED notUnmount

\* The goroutine's test: if !unmounted.Value() { unmountServer() }
DisconnectCheck(h) ==
    /\ pc[h] = "check"
    /\ Alive
    /\ pc' = [pc EXCEPT ![h] = IF ~AtomicValue THEN "cas" ELSE "skipped"]
    /\ UNCHANGED <<unmounted, unmountCalls>>
    /\ UNCHANGED notUnmount

\* main leaves its select loop (a signal, or the server is done): the
\* deferred unmountServer() starts.
MainReturns ==
    /\ pc[0] = "idle"
    /\ pc' = [pc EXCEPT ![0] = "cas"]
    /\ UNCHANGED <<unmounted, unmountCalls>>
    /\ UNCHANGED notUnmount

(***************************************************************************)
(* Paths: path.Dir and path.Base of the Go standard library, on strings    *)
(* held as sequences of one-character strings.                             *)
(***************************************************************************)
\* Index of the last "/" of p, 0 when there is none.
LastSlash(p) ==
    LET S == { i \in 1..Len(p) : p[i] = "/" }
    IN  IF S = {} THEN 0 ELSE CHOOSE i \in S : \A j \in S : j <= i

RECURSIVE TrimSlashes(_)
\* p without its trailing slashes.
TrimSlashes(p) ==
    IF Len(p) > 0 /\ p[Len(p)] = "/"
    THEN TrimSlashes(SubSeq(p, 1, Len(p) - 1))
    ELSE p

\* path.Base: the last element of p; "." for the empty path, "/" for a
\* path of slashes only.
Base(p) ==
    IF p = <<>> THEN <<".">>
    ELSE LET t == TrimSlashes(p)
             u == SubSeq(t, LastSlash(t) + 1, Len(t))
         IN  IF u = <<>> THEN <<"/">> ELSE u

RECURSIVE Elements(_)
\* The non-empty elements of p between its slashes.
Elements(p) ==
    IF p = <<>> THEN <<>>
    ELSE LET S == { i \in 1..Len(p) : p[i] = "/" }
         IN  IF S = {} THEN <<p>>
             ELSE LET i == CHOOSE k \in S : \A j \in S : k <= j
                      rest == Elements(SubSeq(p, i + 1, Len(p)))
                  IN  IF i = 1 THEN rest ELSE <<SubSeq(p, 1, i - 1)>> \o rest

RECURSIVE CleanElements(_, _, _)
\* path.Clean's rules over the elements: "." is dropped, ".." removes the
\* element before it, is dropped at the root and is kept at the head of a
\* relative path.
CleanElements(elems, rooted, out) ==
    IF elems = <<>> THEN out
    ELSE LET e == Head(elems)
             rest == Tail(elems)
         IN  IF e = <<".">> THEN CleanElements(rest, rooted, out)
             ELSE IF e = <<".", ".">>
             THEN IF out # <<>> /\ out[Len(out)] # <<".", ".">>
                  THEN CleanElements(rest, rooted, SubSeq(out, 1, Len(out) - 1))
                  ELSE IF rooted THEN CleanElements(rest, rooted, out)
                  ELSE CleanElements(rest, rooted, Append(out, e))
             ELSE CleanElements(rest, rooted, Append(out, e))

RECURSIVE JoinElements(_)
JoinElements(elems) ==
    IF elems = <<>> THEN <<>>
    ELSE IF Len(elems) = 1 THEN elems[1]
    ELSE elems[1] \o <<"/">> \o JoinElements(Tail(elems))

\* path.Clean
Clean(p) ==
    IF p = <<>> THEN <<".">>
    ELSE LET rooted == p[1] = "/"
             body == JoinElements(CleanElements(Elements(p), rooted, <<>>))
         IN  IF rooted THEN <<"/">> \o body
             ELSE IF body = <<>> THEN <<".">> ELSE body

\* path.Dir: all but the last element of p, cleaned.
Dir(p) == Clean(SubSeq(p, 1, LastSlash(p)))

(***************************************************************************)
(* The device behind the caching client, and the directory-entry cache     *)
(***************************************************************************)
RootPath == <<"/">>
DirD == <<"/", "d">>

\* The paths the filesystem asks about.
StatPaths ==
    { RootPath, DirD, DirD \o <<"/", "a">>, DirD \o <<"/", "c">>, <<"a", "/", "a">> }
ListPaths == { RootPath, DirD, <<"a">> }

File(n) == DirEntry(<<n>>, "file", 10, 100)
RootEntry == DirEntry(<<"/">>, "dir", 0, 100)
DirDEntry == DirEntry(<<"d">>, "dir", 0, 100)

\* What directory /d may hold on the device.
Listings ==
    { <<>>, <<File("a"), File("b")>>, <<File("a"), File("b"), File("c")>> }

\* The wrapped client's ListDirEntries on the device: / holds d, /d holds
\* dev, nothing else exists.
DeviceList(dev, path) ==
    IF path = RootPath THEN [listing |-> <<DirDEntry>>, err |-> NoErr]
    ELSE IF path = DirD THEN [listing |-> dev, err |-> NoErr]
    ELSE [listing |-> <<>>, err |-> AdbErr("FileNoExist")]

\* The wrapped client's Stat on the device.
DeviceStat(dev, name) ==
    IF name = RootPath THEN [entry |-> RootEntry, err |-> NoErr]
    ELSE LET l == DeviceList(dev, Dir(name))
             S == { i \in 1..Len(l.listing) : l.listing[i].Name = Base(name) }
         IN  IF l.err = NoErr /\ S # {}
             THEN [entry |-> l.listing[CHOOSE i \in S : TRUE], err |-> NoErr]
             ELSE [entry |-> NilEntry, err |-> AdbErr("FileNoExist")]

\* NewCachedDirEntries: the listing in order, and by name; a later entry of
\* a name replaces an earlier one in the map.
NewCachedDirEntries(es) ==
    [InOrder |-> es,
     ByName |-> [n \in { es[i].Name : i \in 1..Len(es) } |->
                    es[CHOOSE i \in 1..Len(es) :
                          /\ es[i].Name = n
                          /\ \A j \in 1..Len(es) : es[j].Name = n => j <= i]]]

NilCached == NewCachedDirEntries(<<>>)

\* NewCachedDirEntries has not been called.
NotBuilt == [done |-> FALSE, value |-> NilCached]

\* The entries a listing handed to NewCachedDirEntries is made of: two
\* names, each with two sizes.
ListedEntries ==
    { DirEntry(<<n>>, "file", sz, 100) : n \in { "a", "b" }, sz \in { 10, 20 } }

\* The listings of at most n entries.
ListingsUpTo(n) == UNION { [1..k -> ListedEntries] : k \in 0..n }

\* The loader of ListDirEntries builds the CachedDirEntries of the listing.
BuildCachedDirEntries ==
    /\ ~built.done
    /\ built' = [done |-> TRUE, value |-> NewCachedDirEntries(listed)]
    /\ UNCHANGED listed
    /\ UNCHANGED notEntries

CacheKeys == { Dir(n) : n \in StatPaths } \cup ListPaths

\* An entry carries the time it was inserted at and a version that tells it
\* from every other entry a deferred removal may still refer to.
NoCacheEntry ==
    [present |-> FALSE, value |-> NilCached, expires |-> 0, inserted |-> 0, version |-> 0]

\* The version of the entry under key, 0 when there is none.
CacheVersion(c, key) == IF key \in DOMAIN c THEN c[key].version ELSE 0

\* A version no entry of key and no deferred removal of key bears.
FreshVersion(key) ==
    LET used == { cache[key].version, closeInfo.version }
                    \cup { t.version : t \in { u \in pending : u.key = key } }
    IN  CHOOSE n \in 1..(Cardinality(used) + 1) :
            n \notin used /\ \A m \in 1..(n - 1) : m \in used

\* Cache.Get(key) on cache c at time t: an entry is found until it expires.
CacheGet(c, t, key) ==
    IF c[key].present /\ t < c[key].expires
    THEN [found |-> TRUE, value |-> c[key].value]
    ELSE [found |-> FALSE, value |-> NilCached]

\* The entry GetOrLoad stores for a loaded value.
CachePut(c, t, key, value) ==
    [c EXCEPT ![key] = [present |-> TRUE, value |-> value, expires |-> t + ttl,
                        inserted |-> t, version |-> FreshVersion(key)]]

(***************************************************************************)
(* LogEntry, as far as the caching client uses it                          *)
(***************************************************************************)
\* StartOperation: nothing recorded yet.  err is the error's text, "nil"
\* for a nil error; panicked tells that a method called on the entry panicked.
NewLogEntry ==
    [err |-> "nil", result |-> "", status |-> "",
     cacheUsed |-> FALSE, cacheHit |-> FALSE, panicked |-> FALSE]

\* LogEntry.CacheUsed(hit): panics when cache use was already reported.
LogCacheUsed(log, hit) ==
    IF log.cacheUsed THEN [log EXCEPT !.panicked = TRUE]
    ELSE [log EXCEPT !.cacheUsed = TRUE, !.cacheHit = hit]

\* The errors an operation may report, nil among them.
LogErrors == { "nil", "E1", "E2" }

\* fmt.Errorf("%s: %v", msg, err) with msg "msg": never nil, a nil err is
\* printed as <nil>.
Errorf(err) ==
    CASE err = "nil" -> "msg: <nil>"
      [] err = "E1"  -> "msg: E1"
      [] OTHER       -> "msg: E2"

\* The format strings and argument lists Result is called with.
ResultFormats == { "", "%s", "r1" }
ResultArgs == { <<>>, << "" >>, << "r2" >> }

\* fmt.Sprintf(msg, args...) on these formats: a verb without its argument
\* and an argument without its verb are both printed as fmt prints them.
Sprintf(msg, args) ==
    CASE msg = "%s" /\ args = <<>>        -> "%!s(MISSING)"
      [] msg = "%s"                       -> args[1]
      [] args = <<>>                      -> msg
      [] msg = "" /\ args = << "" >>      -> "%!(EXTRA string=)"
      [] msg = "" /\ args = << "r2" >>    -> "%!(EXTRA string=r2)"
      [] msg = "r1" /\ args = << "" >>    -> "r1%!(EXTRA string=)"
      [] OTHER                            -> "r1%!(EXTRA string=r2)"

\* fuse.Status values and their String(): never the empty string.
Statuses == { 0, 2 }
StatusString(status) == IF status = 0 THEN "OK" ELSE "ENOENT"

\* LogEntry.Error(err): panics when an error is already recorded.
LogError(log, err) ==
    IF log.err # "nil" THEN [log EXCEPT !.panicked = TRUE]
    ELSE [log EXCEPT !.err = err]

\* LogEntry.ErrorMsg(err, msg)
LogErrorMsg(log, err) == LogError(log, Errorf(err))

\* LogEntry.Result(msg, args...): panics when a result is already recorded.
LogResult(log, msg, args) ==
    IF log.result # "" THEN [log EXCEPT !.panicked = TRUE]
    ELSE [log EXCEPT !.result = Sprintf(msg, args)]

\* LogEntry.Status(status): panics when a status is already recorded.
LogStatus(log, status) ==
    IF log.status # "" THEN [log EXCEPT !.panicked = TRUE]
    ELSE [log EXCEPT !.status = StatusString(status)]

\* One method call on the operation's LogEntry; a panic ends the operation.
LogCall(method, field, after) ==
    /\ ~logEntry.panicked
    /\ Len(logCalls) < MaxLogCalls
    /\ logEntry' = after
    /\ logCalls' = Append(logCalls, [method |-> method, field |-> field,
                                     before |-> logEntry, after |-> after])
    /\ UNCHANGED notLog

CallError(err) == LogCall("Error", "err", LogError(logEntry, err))
CallErrorMsg(err) == LogCall("ErrorMsg", "err", LogErrorMsg(logEntry, err))
CallResult(msg, args) == LogCall("Result", "result", LogResult(logEntry, msg, args))
CallStatus(status) == LogCall("Status", "status", LogStatus(logEntry, status))
CallCacheUsed(hit) == LogCall("CacheUsed", "cacheUsed", LogCacheUsed(logEntry, hit))

(***************************************************************************)
(* CachingDeviceClient                                                     *)
(***************************************************************************)
\* A nil io.WriteCloser, and the onCloseWriter OpenWrite returns: the
\* wrapped sink and the key its onClosed removes from the cache.
NilWrapper == [nil |-> TRUE, WriteCloser |-> "nil", key |-> <<>>]

\* No sink has been closed yet.
NoClose == [closed |-> FALSE, dir |-> <<>>, version |-> 0, listed |-> FALSE, err |-> NoErr]

\* No sink is open, and none has been opened so far.
NoSink == [open |-> FALSE, name |-> <<>>, wrapper |-> NilWrapper, opened |-> 0]

\* No deferred removal was carried out.
NoFired == [key |-> <<>>, version |-> 0, found |-> 0, left |-> 0]

\* What one call did: its result, the keys it asked the cache for, the calls
\* it made on the wrapped client, its LogEntry, and the cache and clock it
\* started from.
OpRecord(op, name, entry, listing, err, gets, innerStat, innerList, log) ==
    [op |-> op, name |-> name, entry |-> entry, listing |-> listing, err |-> err,
     gets |-> gets, innerStat |-> innerStat, innerList |-> innerList, log |-> log,
     cacheBefore |-> cache, nowBefore |-> now,
     pendingBefore |-> pending, closeBefore |-> closeInfo,
     events |-> <<>>, wrapper |-> NilWrapper, fired |-> NoFired]

NoOp == [op |-> "none", name |-> <<>>, entry |-> NilEntry, listing |-> <<>>, err |-> NoErr,
         gets |-> {}, innerStat |-> 0, innerList |-> 0, log |-> NewLogEntry,
         cacheBefore |-> [k \in CacheKeys |-> NoCacheEntry], nowBefore |-> 0,
         pendingBefore |-> {}, closeBefore |-> NoClose,
         events |-> <<>>, wrapper |-> NilWrapper, fired |-> NoFired]

\* fmt.Errorf("name '%s' does not exist in cached directory listing: %w",
\*            base, adb.FileNoExistError)
CachedNoExistErr ==
    [kind |-> "wrapped", field |-> "cached directory listing", cause |-> "FileNoExist", tag |-> ""]

\* Stat that asks the device when the cached listing lacks the name.
CachingStatResult_Reverify(name) ==
    LET dir == Dir(name)
        base == Base(name)
        inner == DeviceStat(device, name)
        log == NewLogEntry
    IN  IF dir = base
        THEN OpRecord("Stat", name, inner.entry, <<>>, inner.err, {}, 1, 0, log)
        ELSE LET g == CacheGet(cache, now, dir)
             IN  IF g.found /\ base \in DOMAIN g.value.ByName
                 THEN OpRecord("Stat", name, g.value.ByName[base], <<>>, NoErr,
                               {dir}, 0, 0, LogCacheUsed(log, TRUE))
                 ELSE OpRecord("Stat", name, inner.entry, <<>>, inner.err,
                               {dir}, 1, 0, LogCacheUsed(log, g.found))

\* Stat that asks the cache for the root's parent as for any other path.
CachingStatResult_NoRootBypass(name) ==
    LET dir == Dir(name)
        base == Base(name)
        inner == DeviceStat(device, name)
        log == NewLogEntry
        g == CacheGet(cache, now, dir)
    IN  IF g.found
        THEN IF base \in DOMAIN g.value.ByName
             THEN OpRecord("Stat", name, g.value.ByName[base], <<>>, NoErr,
                           {dir}, 0, 0, LogCacheUsed(log, TRUE))
             ELSE OpRecord("Stat", name, NilEntry, <<>>, CachedNoExistErr,
                           {dir}, 0, 0, LogCacheUsed(log, TRUE))
        ELSE OpRecord("Stat", name, inner.entry, <<>>, inner.err,
                      {dir}, 1, 0, LogCacheUsed(log, FALSE))

\* Stat that takes whatever listing the cache still holds for the parent,
\* without regard to Get's found result.
CachingStatResult_IgnoreFound(name) ==
    LET dir == Dir(name)
        base == Base(name)
        inner == DeviceStat(device, name)
        log == NewLogEntry
    IN  IF dir = base
        THEN OpRecord("Stat", name, inner.entry, <<>>, inner.err, {}, 1, 0, log)
        ELSE IF cache[dir].present
        THEN IF base \in DOMAIN cache[dir].value.ByName
             THEN OpRecord("Stat", name, cache[dir].value.ByName[base], <<>>, NoErr,
                           {dir}, 0, 0, LogCacheUsed(log, TRUE))
             ELSE OpRecord("Stat", name, NilEntry, <<>>, CachedNoExistErr,
                           {dir}, 0, 0, LogCacheUsed(log, TRUE))
        ELSE OpRecord("Stat", name, inner.entry, <<>>, inner.err,
                      {dir}, 1, 0, LogCacheUsed(log, FALSE))

\* CachingDeviceClient.Stat(name, log) with a fresh LogEntry.
CachingStatResult(name) ==
    LET dir == Dir(name)
        base == Base(name)
        inner == DeviceStat(device, name)
        log == NewLogEntry
    IN  IF dir = base
        THEN OpRecord("Stat", name, inner.entry, <<>>, inner.err, {}, 1, 0, log)
        ELSE LET g == CacheGet(cache, now, dir)
             IN  IF g.found
                 THEN IF base \in DOMAIN g.value.ByName
                      THEN OpRecord("Stat", name, g.value.ByName[base], <<>>, NoErr,
                                    {dir}, 0, 0, LogCacheUsed(log, TRUE))
                      ELSE OpRecord("Stat", name, NilEntry, <<>>, CachedNoExistErr,
                                    {dir}, 0, 0, LogCacheUsed(log, TRUE))
                 ELSE OpRecord("Stat", name, inner.entry, <<>>, inner.err,
                               {dir}, 1, 0, LogCacheUsed(log, FALSE))

\* CachingDeviceClient.Stat: the cache is only read.
CachingStat(name) ==
    /\ lastOp' = CachingStatResult(name)
    /\ UNCHANGED <<device, cache, ttl, now, writeVars>>
    /\ UNCHANGED notCache

\* CachingDeviceClient.ListDirEntries: Cache.GetOrLoad with a loader that
\* lists the directory on the wrapped client.
CachingListDirEntries(path) ==
    LET g == CacheGet(cache, now, path)
        loaded == DeviceList(device, path)
        log == NewLogEntry
    IN  /\ IF g.found
           THEN /\ lastOp' = OpRecord("ListDirEntries", path, NilEntry, g.value.InOrder, NoErr,
                                      {path}, 0, 0, LogCacheUsed(log, TRUE))
                /\ UNCHANGED cache
           ELSE IF loaded.err # NoErr
           THEN /\ lastOp' = OpRecord("ListDirEntries", path, NilEntry, <<>>, loaded.err,
                                      {path}, 0, 1, LogCacheUsed(log, FALSE))
                /\ UNCHANGED cache
           ELSE /\ lastOp' = OpRecord("ListDirEntries", path, NilEntry, loaded.listing, NoErr,
                                      {path}, 0, 1, LogCacheUsed(log, FALSE))
                /\ cache' = CachePut(cache, now, path, NewCachedDirEntries(loaded.listing))
        /\ closeInfo' = IF closeInfo.closed /\ closeInfo.dir = path
                         THEN [closeInfo EXCEPT !.listed = TRUE]
                         ELSE closeInfo
        /\ UNCHANGED <<device, ttl, now, sink, grace, pending>>
        /\ UNCHANGED notCache

\* Time passes, but not beyond the time a deferred removal is due at.
Tick ==
    /\ now < MaxTime
    /\ \A t \in pending : t.due > now
    /\ now' = now + 1
    /\ UNCHANGED <<device, cache, ttl, lastOp, writeVars>>
    /\ UNCHANGED notCache

\* Directory /d changes on the device behind the cache's back.
DeviceChange(l) ==
    /\ l # device
    /\ device' = l
    /\ UNCHANGED <<cache, ttl, now, lastOp, writeVars>>
    /\ UNCHANGED notCache

(***************************************************************************)
(* The write path: OpenWrite, the sink's Close and the deferred removal     *)
(***************************************************************************)
\* The file the filesystem writes.
WritePaths == { DirD \o <<"/", "c">> }

\* Directory /d on the device once the file called base has been written.
WithFile(dev, base) ==
    SelectSeq(dev, LAMBDA e : e.Name # base) \o << DirEntry(base, "file", 20, 200) >>

\* Cache.Remove(key): the entry is gone at once.
CacheRemove(c, key) == IF key \in DOMAIN c THEN [c EXCEPT ![key] = NoCacheEntry] ELSE c

\* A deferred removal: the key, the version of the entry seen when it was
\* scheduled, and the time by which it is carried out.
RemovalTask(c, t, key) == [key |-> key, version |-> CacheVersion(c, key), due |-> t + grace]

\* Cache.RemoveEventually(key) on cache c with deferred removals p at time t:
\* without a grace period the entry is removed at once.
RemoveEventually(c, p, t, key) ==
    IF grace = 0
    THEN [cache |-> CacheRemove(c, key), pending |-> p]
    ELSE [cache |-> c, pending |-> p \cup { RemovalTask(c, t, key) }]

\* A deferred removal that removes whatever entry it finds.
RemovalFired_Unconditional(c, task) == CacheRemove(c, task.key)

\* The cache after the deferred removal task has been carried out: the entry
\* goes only if it is still the one seen at schedule time.
RemovalFired(c, task) ==
    IF task.version > 0 /\ CacheVersion(c, task.key) = task.version
    THEN CacheRemove(c, task.key)
    ELSE c

\* OpenWrite that invalidates the file's own path.
CachingOpenWriteResult_KeyIsName(name, inner) ==
    [wrapper |-> [nil |-> FALSE, WriteCloser |-> inner.val, key |-> name],
     err |-> inner.err]

\* CachingDeviceClient.OpenWrite over the result of the wrapped OpenWrite:
\* always an onCloseWriter around whatever sink came back, and the error.
CachingOpenWriteResult(name, inner) ==
    [wrapper |-> [nil |-> FALSE, WriteCloser |-> inner.val, key |-> Dir(name)],
     err |-> inner.err]

CloseEvent == [call |-> "WriteCloser.Close", key |-> <<>>]
OnClosedEvent(key) == [call |-> "onClosed", key |-> key]

\* Close that invalidates before the sink has been closed.
onCloseWriterClose_InvalidateFirst(w, closeErr) ==
    [events |-> << OnClosedEvent(w.key), CloseEvent >>, err |-> closeErr]

\* Close that invalidates only when the sink closed without an error.
onCloseWriterClose_SkipOnError(w, closeErr) ==
    [events |-> IF closeErr = NoErr THEN << CloseEvent, OnClosedEvent(w.key) >>
                ELSE << CloseEvent >>,
     err |-> closeErr]

\* onCloseWriter.Close: the calls it makes, in order, and what it returns
\* when the wrapped Close returns closeErr.
onCloseWriterClose(w, closeErr) ==
    [events |-> << CloseEvent, OnClosedEvent(w.key) >>, err |-> closeErr]

\* The keys the calls of a Close hand to RemoveEventually.
InvalidatedKeys(events) ==
    { events[i].key : i \in { j \in 1..Len(events) : events[j].call = "onClosed" } }

\* CachingDeviceClient.OpenWrite over the outcome u of Device.OpenWrite; the
\* caller keeps the sink when there is no error.
CachingOpenWrite(name, u) ==
    /\ ~sink.open
    /\ sink.opened < MaxOpens
    /\ LET r == CachingOpenWriteResult(name, goadbOpenWrite(u))
       IN  /\ lastOp' = [OpRecord("OpenWrite", name, NilEntry, <<>>, r.err, {}, 0, 0,
                                   NewLogEntry) EXCEPT !.wrapper = r.wrapper]
           /\ sink' = IF r.err = NoErr
                      THEN [open |-> TRUE, name |-> name, wrapper |-> r.wrapper,
                            opened |-> sink.opened + 1]
                      ELSE sink
    /\ UNCHANGED <<device, cache, ttl, now, grace, pending, closeInfo>>
    /\ UNCHANGED notCache

\* The caller closes its sink; the wrapped Close returns closeErr, and the
\* file is on the device when it returns none.
SinkClose(closeErr) ==
    /\ sink.open
    /\ LET r == onCloseWriterClose(sink.wrapper, closeErr)
           keys == InvalidatedKeys(r.events)
           after == IF keys = {}
                    THEN [cache |-> cache, pending |-> pending]
                    ELSE RemoveEventually(cache, pending, now, CHOOSE k \in keys : TRUE)
       IN  /\ lastOp' = [OpRecord("Close", sink.name, NilEntry, <<>>, r.err, {}, 0, 0,
                                   NewLogEntry) EXCEPT !.events = r.events]
           /\ cache' = after.cache
           /\ pending' = after.pending
    /\ device' = IF closeErr = NoErr THEN WithFile(device, Base(sink.name)) ELSE device
    /\ closeInfo' = [closed |-> TRUE, dir |-> Dir(sink.name),
                     version |-> CacheVersion(cache, Dir(sink.name)),
                     listed |-> FALSE, err |-> closeErr]
    /\ sink' = [NoSink EXCEPT !.opened = sink.opened]
    /\ UNCHANGED <<ttl, now, grace>>
    /\ UNCHANGED notCache

\* A deferred removal is carried out.
RemoveFire(task) ==
    /\ task \in pending
    /\ cache' = RemovalFired(cache, task)
    /\ pending' = pending \ { task }
    /\ lastOp' = [OpRecord("RemoveFire", task.key, NilEntry, <<>>, NoErr, {}, 0, 0,
                            NewLogEntry)
                      EXCEPT !.fired = [key |-> task.key, version |-> task.version,
                                        found |-> CacheVersion(cache, task.key),
                                        left |-> CacheVersion(RemovalFired(cache, task),
                                                              task.key)]]
    /\ UNCHANGED <<device, ttl, now, sink, grace, closeInfo>>
    /\ UNCHANGED notCache

(***************************************************************************)
(* Concurrent ListDirEntries calls for one directory                       *)
(***************************************************************************)
Threads == 1..MaxThreads

\* A call that has not started: where it stands, the calls it found in
\* progress when it arrived, whether it arrived at a valid entry, the call
\* whose load it waits for, and the loader invocation and result it got.
IdleCaller ==
    [pc |-> "idle", seen |-> {}, missed |-> FALSE, leader |-> 0, load |-> 0,
     listing |-> <<>>, err |-> NoErr]

\* The calls that have arrived and not returned.
InProgress == { t \in Threads : callers[t].pc \in { "loading", "waiting" } }

\* The calls that are running the loader.
Loading == { t \in Threads : callers[t].pc = "loading" }

\* Cache.GetOrLoad on arrival: a valid entry is a hit, a load in flight for
\* the key is waited for, otherwise the caller runs the loader.
GetOrLoadRole(found, inFlight) ==
    IF found THEN "hit" ELSE IF inFlight THEN "wait" ELSE "load"

\* ListDirEntries that calls Cache.Get and, on a miss, lists the directory
\* on the wrapped client itself, as Stat does.
ListDirEntriesRole_GetThenList(found, inFlight) ==
    IF found THEN "hit" ELSE "load"

\* How ListDirEntries gets its entries: through Cache.GetOrLoad.
ListDirEntriesRole(found, inFlight) == GetOrLoadRole(found, inFlight)

\* Thread t calls ListDirEntries("/d").
FlightArrive(t) ==
    /\ callers[t].pc = "idle"
    /\ LET g == CacheGet(cache, now, DirD)
           role == ListDirEntriesRole(g.found, Loading # {})
           me == [callers[t] EXCEPT !.seen = InProgress, !.missed = ~g.found]
       IN  callers' = [callers EXCEPT ![t] =
               CASE role = "hit"  -> [me EXCEPT !.pc = "done", !.listing = g.value.InOrder]
                 [] role = "wait" -> [me EXCEPT !.pc = "waiting",
                                                !.leader = CHOOSE l \in Loading : TRUE]
                 [] OTHER         -> [me EXCEPT !.pc = "loading", !.leader = t]]
    /\ UNCHANGED <<loads, cacheVars>>
    /\ UNCHANGED notFlight

\* The loader of thread t lists the directory on the wrapped client, which
\* fails when ~ok; the caller and every call waiting for it return what the
\* loader returned, and a listing is stored in the cache.
FlightLoad(t, ok) ==
    /\ callers[t].pc = "loading"
    /\ LET r == IF ok THEN DeviceList(device, DirD)
                ELSE [listing |-> <<>>, err |-> AdbErr("DeviceNotFound")]
           served == { u \in Threads : callers[u].pc \in { "loading", "waiting" }
                                        /\ callers[u].leader = t }
       IN  /\ callers' = [u \in Threads |->
                   IF u \in served
                   THEN [callers[u] EXCEPT !.pc = "done", !.load = loads + 1,
                                           !.listing = r.listing, !.err = r.err]
                   ELSE callers[u]]
           /\ cache' = IF r.err = NoErr
                       THEN CachePut(cache, now, DirD, NewCachedDirEntries(r.listing))
                       ELSE cache
    /\ loads' = loads + 1
    /\ UNCHANGED <<device, ttl, now, lastOp, writeVars>>
    /\ UNCHANGED notFlight

(***************************************************************************)
(* Specifications.  Each one runs one part of the program and holds the    *)
(* others in their idle state.                                             *)
(***************************************************************************)
IdleLog ==
    /\ logEntry = NewLogEntry
    /\ logCalls = <<>>

IdleEntries ==
    /\ listed = <<>>
    /\ built = NotBuilt

IdleFlight ==
    /\ callers = [t \in Threads |-> IdleCaller]
    /\ loads = 0

IdleDecoder ==
    /\ stream = <<>>
    /\ failAt = NoFail
    /\ closedReads = "fail"
    /\ scanner = [pos |-> 1, reads |-> 0, closed |-> 0]
    /\ entries = [currentEntry |-> NilEntry, err |-> NoErr]
    /\ history = <<>>

IdleUnmount ==
    /\ unmounted = FALSE
    /\ unmountCalls = 0
    /\ pc = [p \in Procs |-> "idle"]

IdleClient ==
    /\ handlerSet = FALSE
    /\ handlerCalls = 0
    /\ clientCalls = <<>>

IdleWrite ==
    /\ sink = NoSink
    /\ grace = 0
    /\ pending = {}
    /\ closeInfo = NoClose

IdleCache ==
    /\ device = <<>>
    /\ cache = [k \in CacheKeys |-> NoCacheEntry]
    /\ ttl = 0
    /\ now = 0
    /\ lastOp = NoOp
    /\ IdleWrite

InitDecoder ==
    /\ stream \in SeqsUpTo(WireRecords, MaxRecords)
    /\ failAt \in {NoFail} \cup ((1..MaxRecords) \X Fields)
    /\ closedReads \in {"fail", "pass"}
    /\ scanner = [pos |-> 1, reads |-> 0, closed |-> 0]
    /\ entries = [currentEntry |-> NilEntry, err |-> NoErr]
    /\ history = <<>>
    /\ IdleClient
    /\ IdleUnmount
    /\ IdleCache
    /\ IdleLog
    /\ IdleEntries
    /\ IdleFlight

NextDecoder ==
    \/ DirEntriesNext
    \/ DirEntriesClose

SpecDecoder == InitDecoder /\ [][NextDecoder]_vars

\* NewGoadbDeviceClientFactory: the handler given may be nil.
InitClient ==
    /\ handlerSet \in BOOLEAN
    /\ handlerCalls = 0
    /\ clientCalls = <<>>
    /\ IdleDecoder
    /\ IdleUnmount
    /\ IdleCache
    /\ IdleLog
    /\ IdleEntries
    /\ IdleFlight

NextClient ==
    \/ ClientOpenRead
    \/ ClientOpenWrite
    \/ ClientStat
    \/ ClientListDirEntries
    \/ ClientRunCommand

SpecClient == InitClient /\ [][NextClient]_vars

InitUnmount ==
    /\ IdleUnmount
    /\ IdleDecoder
    /\ IdleClient
    /\ IdleCache
    /\ IdleLog
    /\ IdleEntries
    /\ IdleFlight

NextUnmount ==
    \/ \E h \in Handlers : handleDeviceDisconnected(h)
    \/ \E h \in Handlers : DisconnectCheck(h)
    \/ MainReturns
    \/ \E p \in Procs : unmountServerSwap(p)
    \/ \E p \in Procs : unmountServerUnmount(p)

SpecUnmount == InitUnmount /\ [][NextUnmount]_vars

\* initializeCache(ttl): an empty cache with the configured time to live.
InitCache ==
    /\ device \in Listings
    /\ cache = [k \in CacheKeys |-> NoCacheEntry]
    /\ ttl \in 0..MaxTtl
    /\ now = 0
    /\ lastOp = NoOp
    /\ IdleWrite
    /\ IdleDecoder
    /\ IdleClient
    /\ IdleUnmount
    /\ IdleLog
    /\ IdleEntries
    /\ IdleFlight

NextCache ==
    \/ \E name \in StatPaths : CachingStat(name)
    \/ \E path \in ListPaths : CachingListDirEntries(path)
    \/ Tick
    \/ \E l \in Listings : DeviceChange(l)

SpecCache == InitCache /\ [][NextCache]_vars

\* The caching client with a file being written: caching is off or entries
\* live for MaxTtl, and the cache removes at once or defers removals for up
\* to MaxGrace.
InitWrite ==
    /\ device = << File("a"), File("b") >>
    /\ cache = [k \in CacheKeys |-> NoCacheEntry]
    /\ ttl \in { 0, MaxTtl }
    /\ now = 0
    /\ lastOp = NoOp
    /\ sink = NoSink
    /\ grace \in { 0, MaxGrace }
    /\ pending = {}
    /\ closeInfo = NoClose
    /\ IdleDecoder
    /\ IdleClient
    /\ IdleUnmount
    /\ IdleLog
    /\ IdleEntries
    /\ IdleFlight

CloseErrs == { NoErr, AdbErr("DeviceNotFound") }

NextWrite ==
    \/ \E name \in WritePaths : CachingStat(name)
    \/ CachingListDirEntries(DirD)
    \/ Tick
    \/ \E name \in WritePaths : \E u \in DeviceOutcomes : CachingOpenWrite(name, u)
    \/ \E closeErr \in CloseErrs : SinkClose(closeErr)
    \/ \E task \in pending : RemoveFire(task)

SpecWrite == InitWrite /\ [][NextWrite]_vars

\* One operation's LogEntry and the methods called on it.
InitLog ==
    /\ logEntry = NewLogEntry
    /\ logCalls = <<>>
    /\ IdleDecoder
    /\ IdleClient
    /\ IdleUnmount
    /\ IdleCache
    /\ IdleEntries
    /\ IdleFlight

NextLog ==
    \/ \E err \in LogErrors : CallError(err)
    \/ \E err \in LogErrors : CallErrorMsg(err)
    \/ \E msg \in ResultFormats : \E args \in ResultArgs : CallResult(msg, args)
    \/ \E status \in Statuses : CallStatus(status)
    \/ \E hit \in BOOLEAN : CallCacheUsed(hit)

SpecLog == InitLog /\ [][NextLog]_vars

\* NewCachedDirEntries over every listing of at most MaxListing entries.
InitEntries ==
    /\ listed \in ListingsUpTo(MaxListing)
    /\ built = NotBuilt
    /\ IdleDecoder
    /\ IdleClient
    /\ IdleUnmount
    /\ IdleCache
    /\ IdleLog
    /\ IdleFlight

NextEntries == BuildCachedDirEntries

SpecEntries == InitEntries /\ [][NextEntries]_vars

\* MaxThreads threads, each calling ListDirEntries("/d") once, on an empty
\* cache.
InitFlight ==
    /\ callers = [t \in Threads |-> IdleCaller]
    /\ loads = 0
    /\ device \in Listings
    /\ cache = [k \in CacheKeys |-> NoCacheEntry]
    /\ ttl \in { 0, MaxTtl }
    /\ now = 0
    /\ lastOp = NoOp
    /\ IdleWrite
    /\ IdleDecoder
    /\ IdleClient
    /\ IdleUnmount
    /\ IdleLog
    /\ IdleEntries

NextFlight ==
    \/ \E t \in Threads : FlightArrive(t)
    \/ \E t \in Threads : \E ok \in BOOLEAN : FlightLoad(t, ok)
    \/ Tick
    \/ \E l \in Listings : DeviceChange(l)

SpecFlight == InitFlight /\ [][NextFlight]_vars

(***************************************************************************)
(* Claims about the wire decoder (checked under SpecDecoder)               *)
(***************************************************************************)
\* The first n calls made so far were all Next().
OnlyNext(n) == \A i \in 1..n : i <= Len(history) => history[i].op = "Next"

\* Records 1..j of the stream are DENT records.
DentPrefix(j) == \A i \in 1..j : stream[i].id = "DENT"

\* The stream is k well-formed DENT records followed by exactly one DONE,
\* and no read of it fails.
WellFormedListing(k) ==
    /\ Len(stream) = k + 1
    /\ DentPrefix(k)
    /\ stream[k + 1].id = "DONE"
    /\ failAt = NoFail

\* C1: for a stream of k >= 0 well-formed DENT records followed by exactly
\* one DONE, repeated Next() calls return true exactly k times, Entry()
\* yields the k records in stream order, and the (k+1)-th Next() returns
\* false with Err() = nil.
C1_DecoderTermination ==
    \A k \in 0..MaxRecords :
        (WellFormedListing(k) /\ OnlyNext(Len(history))) =>
            \A i \in 1..Len(history) :
                /\ i <= k => (history[i].ret /\ history[i].entry = stream[i].entry)
                /\ i = k + 1 => (~history[i].ret /\ history[i].err = NoErr)
                /\ i > k => ~history[i].ret

C1_Witness ==
    /\ WellFormedListing(2)
    /\ stream[1].entry # stream[2].entry
    /\ Len(history) = 3
    /\ OnlyNext(3)
    /\ history[1].ret /\ history[2].ret /\ ~history[3].ret
    /\ history[3].err = NoErr

\* The (j+1)-th record carries a tag that is neither DENT nor DONE, the j
\* records before it are well-formed DENT records, and no read up to and
\* including that tag fails.
MalformedAt(j) ==
    /\ Len(stream) >= j + 1
    /\ DentPrefix(j)
    /\ stream[j + 1].id \notin {"DENT", "DONE"}
    /\ (failAt = NoFail \/ failAt[1] > j + 1)

\* C2: when the (j+1)-th record's tag is neither DENT nor DONE, the decoder
\* yields exactly the j entries before it, then Next() returns false with a
\* protocol error that includes the offending tag, and every later Next()
\* returns false, reads nothing and leaves Entry() and Err() as they were,
\* whatever follows in the stream.
C2_DecoderErrorIsolation ==
    \A j \in 0..MaxRecords :
        (MalformedAt(j) /\ OnlyNext(j + 1)) =>
            \A i \in 1..Len(history) :
                /\ i <= j => (history[i].ret /\ history[i].entry = stream[i].entry)
                /\ i = j + 1 =>
                      /\ ~history[i].ret
                      /\ history[i].err.kind = "protocol"
                      /\ history[i].err.tag = stream[j + 1].id
                /\ (i > j + 1 /\ history[i].op = "Next") =>
                      /\ ~history[i].ret
                      /\ history[i].reads = 0
                      /\ history[i].entry = history[j + 1].entry
                      /\ history[i].err = history[j + 1].err

C2_Witness ==
    /\ MalformedAt(1)
    /\ Len(stream) = 3
    /\ stream[3].id = "DENT"
    /\ closedReads = "pass"
    /\ Len(history) = 3
    /\ OnlyNext(3)
    /\ history[1].ret /\ ~history[2].ret /\ ~history[3].ret
    /\ history[3].err.kind = "protocol"

\* Some Next() among the first n calls returned false: the sequence is
\* terminated.
TerminatedWithin(n) ==
    \E i \in 1..n : i <= Len(history) /\ history[i].op = "Next" /\ ~history[i].ret

\* C3: once DONE or an error has terminated the sequence, every further
\* Next() returns false without reading from the scanner.
C3_NoReadAfterTermination ==
    \A i \in 1..Len(history) :
        (history[i].op = "Next" /\ TerminatedWithin(i - 1)) =>
            (~history[i].ret /\ history[i].reads = 0)

\* C4: over any sequence of Next() and Close() calls that reaches
\* termination, the scanner's Close has been invoked exactly once.
C4_ClosedExactlyOnce ==
    TerminatedWithin(Len(history)) => scanner.closed = 1

\* C5: a scanner read failure at the tag or at any field is reported as an
\* error wrapping the failing read's context and its cause, never as the
\* bare transport error.
C5_ReadFailureWrapped ==
    \A i \in 1..Len(history) :
        (history[i].op = "Next" /\ history[i].reads > 0
            /\ history[i].err.kind \in {"transport", "wrapped"}) =>
                /\ history[i].err.kind = "wrapped"
                /\ history[i].err.field \in Fields
                /\ history[i].err.cause # ""

(***************************************************************************)
(* Claims about goadbDeviceClient (checked under SpecClient)               *)
(***************************************************************************)
\* C6: with a handler registered, every client operation invokes it exactly
\* once when the underlying call fails with DeviceNotFound, and not at all
\* on success or on any other error.
C6_HandlerOncePerDeviceNotFound ==
    handlerSet =>
        \A i \in 1..Len(clientCalls) :
            clientCalls[i].r.handler =
                IF HasErrCode(clientCalls[i].r.underlying, "DeviceNotFound") THEN 1 ELSE 0

\* C7: when an operation detects DeviceNotFound, the caller receives the
\* underlying error unchanged and a nil result.
C7_DetectionKeepsFailure ==
    \A i \in 1..Len(clientCalls) :
        clientCalls[i].r.detected =>
            /\ clientCalls[i].r.err = clientCalls[i].r.underlying
            /\ clientCalls[i].r.err # NoErr
            /\ clientCalls[i].r.val = "nil"

C7_Witness ==
    /\ handlerSet
    /\ handlerCalls = 2
    /\ Len(clientCalls) = 2
    /\ clientCalls[1].op = "OpenRead" /\ clientCalls[1].r.detected
    /\ clientCalls[2].op = "Stat" /\ clientCalls[2].r.detected
    /\ clientCalls[2].r.err = AdbErr("DeviceNotFound")

(***************************************************************************)
(* Claims about unmounting (checked under SpecUnmount)                     *)
(***************************************************************************)
\* Every unmountServer call that was started has returned, and there was
\* at least one.
UnmountSettled ==
    /\ \A p \in Procs : pc[p] \notin {"check", "cas", "unmount"}
    /\ \E p \in Procs : pc[p] = "returned"

NamesOf(es) == { es[i].Name : i \in 1..Len(es) }

\* When the call recorded in lastOp started, the cache held a fresh listing
\* of /d with exactly the names a and b.
FreshABBefore ==
    LET g == CacheGet(lastOp.cacheBefore, lastOp.nowBefore, DirD)
    IN  g.found /\ NamesOf(g.value.InOrder) = { <<"a">>, <<"b">> }

\* C9: with a fresh cached listing of /d holding exactly a and b, Stat of
\* /d/a returns the cached entry and Stat of /d/c returns an error wrapping
\* FileNoExistError, and neither calls the wrapped client's Stat.
C9_CachedMissIsAbsence ==
    (lastOp.op = "Stat" /\ FreshABBefore) =>
        /\ lastOp.name = DirD \o <<"/", "a">> =>
              /\ lastOp.entry = lastOp.cacheBefore[DirD].value.ByName[<<"a">>]
              /\ lastOp.entry = File("a")
              /\ lastOp.err = NoErr
              /\ lastOp.innerStat = 0
        /\ lastOp.name = DirD \o <<"/", "c">> =>
              /\ lastOp.entry = NilEntry
              /\ lastOp.err.kind = "wrapped"
              /\ lastOp.err.cause = "FileNoExist"
              /\ lastOp.innerStat = 0

\* Stat of /d/c answered from the cache while the device does hold c.
C9_Witness ==
    /\ lastOp.op = "Stat"
    /\ FreshABBefore
    /\ lastOp.name = DirD \o <<"/", "c">>
    /\ lastOp.err = CachedNoExistErr
    /\ lastOp.innerStat = 0
    /\ device = <<File("a"), File("b"), File("c")>>

\* C10: Stat of the root path asks the cache for no key and delegates to the
\* wrapped client's Stat.
C10_RootBypass ==
    (lastOp.op = "Stat" /\ lastOp.name = RootPath) =>
        /\ lastOp.gets = {}
        /\ lastOp.innerStat = 1
        /\ lastOp.entry = RootEntry
        /\ lastOp.err = NoErr
        /\ ~lastOp.log.cacheUsed

\* Stat of the root while the root's own listing is cached and fresh.
C10_Witness ==
    /\ lastOp.op = "Stat"
    /\ lastOp.name = RootPath
    /\ CacheGet(lastOp.cacheBefore, lastOp.nowBefore, RootPath).found
    /\ lastOp.gets = {}
    /\ lastOp.innerStat = 1

\* C19: Stat bypasses the cache for the root only: for every other path,
\* the relative path a/a included, the parent's listing is looked up with
\* Cache.Get and cache use is recorded on the LogEntry exactly once.
C19_OnlyRootBypasses ==
    (lastOp.op = "Stat" /\ lastOp.name # RootPath) =>
        /\ lastOp.gets = { Dir(lastOp.name) }
        /\ lastOp.log.cacheUsed
        /\ ~lastOp.log.panicked

\* The entry under key k was inserted before the last call and has not yet
\* lived for the time to live when the call starts.
FreshBefore(k) ==
    /\ lastOp.cacheBefore[k].present
    /\ lastOp.nowBefore < lastOp.cacheBefore[k].inserted + ttl

\* C16: an entry inserted at time T with time to live D answers every Stat and
\* ListDirEntries that starts strictly before T+D from the cache (a hit, no
\* call on the wrapped client) and none that starts at or after T+D (a miss,
\* one call on the wrapped client); with a time to live of zero every access
\* is a miss.
C16_TtlBoundary ==
    \A k \in lastOp.gets :
        /\ lastOp.log.cacheUsed
        /\ lastOp.log.cacheHit <=> FreshBefore(k)
        /\ ttl = 0 => ~lastOp.log.cacheHit
        /\ lastOp.op = "ListDirEntries" =>
               lastOp.innerList = (IF FreshBefore(k) THEN 0 ELSE 1)
        /\ lastOp.op = "Stat" =>
               lastOp.innerStat = (IF FreshBefore(k) THEN 0 ELSE 1)

\* A ListDirEntries that starts exactly when the entry's time to live has
\* elapsed misses and reloads.
C16_Witness ==
    /\ lastOp.op = "ListDirEntries"
    /\ ttl > 0
    /\ \E k \in lastOp.gets :
           /\ lastOp.cacheBefore[k].present
           /\ lastOp.nowBefore = lastOp.cacheBefore[k].inserted + ttl
    /\ ~lastOp.log.cacheHit
    /\ lastOp.innerList = 1

(***************************************************************************)
(* Claims about the write path (checked under SpecWrite)                   *)
(***************************************************************************)
\* C11: closing the sink OpenWrite(name) returned first calls Close on the
\* wrapped sink and only then hands the parent directory of name to
\* RemoveEventually; it does so whatever the wrapped Close returned, and
\* returns what the wrapped Close returned.
C11_CloseThenInvalidate ==
    lastOp.op = "Close" =>
        /\ lastOp.events = << CloseEvent, OnClosedEvent(Dir(lastOp.name)) >>
        /\ lastOp.err = closeInfo.err
        /\ IF grace = 0
           THEN ~cache[Dir(lastOp.name)].present
           ELSE RemovalTask(lastOp.cacheBefore, lastOp.nowBefore, Dir(lastOp.name))
                    \in pending

\* A Close whose wrapped Close failed returned that error and left the
\* removal of the cached parent listing scheduled.
C11_Witness ==
    /\ lastOp.op = "Close"
    /\ lastOp.err # NoErr
    /\ lastOp.cacheBefore[Dir(lastOp.name)].present
    /\ grace > 0
    /\ RemovalTask(lastOp.cacheBefore, lastOp.nowBefore, Dir(lastOp.name)) \in pending

\* The last call was a Stat or ListDirEntries that asked the cache for the
\* directory of the sink closed before it started, and that directory had a
\* cached listing when the sink was closed.
AfterCloseOf(op) ==
    /\ op.op \in { "Stat", "ListDirEntries" }
    /\ op.closeBefore.closed
    /\ op.closeBefore.dir \in op.gets
    /\ op.closeBefore.version > 0

\* The call was answered from the entry that was cached when the sink closed.
AnsweredFromPreClose(op) ==
    /\ op.log.cacheHit
    /\ CacheVersion(op.cacheBefore, op.closeBefore.dir) = op.closeBefore.version

\* The removal the Close scheduled was still to be carried out when the call
\* started.
RemovalPendingBefore(op) ==
    \E t \in op.pendingBefore :
        t.key = op.closeBefore.dir /\ t.version = op.closeBefore.version

\* C12 as stated: no Stat or ListDirEntries that starts after the Close of a
\* sink for a file in d has returned is answered from the listing of d that
\* was cached before the close.
C12_CloseInvalidates ==
    AfterCloseOf(lastOp) => ~AnsweredFromPreClose(lastOp)

\* C12, amended: a Stat or ListDirEntries that starts after the Close has
\* returned and after the removal it scheduled has been carried out (at once
\* when there is no grace period) is not answered from the listing of d that
\* was cached before the close.
C12_InvalidatedOnceRemoved ==
    (AfterCloseOf(lastOp) /\ ~RemovalPendingBefore(lastOp)) =>
        ~AnsweredFromPreClose(lastOp)

\* A Stat after a deferred removal was carried out misses although the
\* listing cached before the close would still be within its time to live.
C12_Witness ==
    /\ AfterCloseOf(lastOp)
    /\ lastOp.op = "Stat"
    /\ grace > 0
    /\ ~RemovalPendingBefore(lastOp)
    /\ lastOp.nowBefore < ttl
    /\ ~lastOp.log.cacheHit

\* C13: once a sink for a file in /d has been closed and no removal of /d is
\* left to carry out, the next ListDirEntries("/d") is a miss, runs the loader
\* once and returns what the device holds.
C13_ReloadAfterGrace ==
    ( /\ lastOp.op = "ListDirEntries"
      /\ lastOp.closeBefore.closed
      /\ lastOp.name = lastOp.closeBefore.dir
      /\ ~lastOp.closeBefore.listed
      /\ \A t \in lastOp.pendingBefore : t.key # lastOp.name ) =>
        /\ lastOp.log.cacheUsed
        /\ ~lastOp.log.cacheHit
        /\ lastOp.innerList = 1
        /\ lastOp.err = NoErr
        /\ lastOp.listing = DeviceList(device, lastOp.name).listing

\* The first listing after a successful write whose deferred removal has been
\* carried out shows the written file, within the old listing's time to live.
C13_Witness ==
    /\ lastOp.op = "ListDirEntries"
    /\ lastOp.closeBefore.closed
    /\ lastOp.closeBefore.err = NoErr
    /\ lastOp.closeBefore.version > 0
    /\ lastOp.name = lastOp.closeBefore.dir
    /\ ~lastOp.closeBefore.listed
    /\ grace > 0
    /\ lastOp.pendingBefore = {}
    /\ lastOp.nowBefore < ttl
    /\ ~lastOp.log.cacheHit
    /\ \E i \in 1..Len(lastOp.listing) : lastOp.listing[i].Name = << "c" >>

\* C15: a deferred removal removes the entry of its key only when that entry
\* is the one that was there when the removal was scheduled; an entry
\* inserted since is left as it is.
C15_RemovalKeyedToVersion ==
    lastOp.op = "RemoveFire" =>
        IF lastOp.fired.version > 0 /\ lastOp.fired.found = lastOp.fired.version
        THEN ~cache[lastOp.fired.key].present
        ELSE /\ cache[lastOp.fired.key] = lastOp.cacheBefore[lastOp.fired.key]
             /\ lastOp.fired.left = lastOp.fired.found

\* A deferred removal found a newer entry than the one it was scheduled for
\* and left it in the cache.
C15_Witness ==
    /\ lastOp.op = "RemoveFire"
    /\ lastOp.fired.version > 0
    /\ lastOp.fired.found > 0
    /\ lastOp.fired.found # lastOp.fired.version
    /\ cache[lastOp.fired.key].present

\* C20: when the wrapped OpenWrite fails, OpenWrite returns the error and a
\* nil sink.
C20_FailedOpenReturnsNil ==
    (lastOp.op = "OpenWrite" /\ lastOp.err # NoErr) => lastOp.wrapper.nil

(***************************************************************************)
(* Claims about LogEntry (checked under SpecLog)                           *)
(***************************************************************************)
\* C17: each of the error, result, status and cache-used fields is set at
\* most once: a call that follows an earlier call for the same field,
\* whatever that call passed, panics and leaves the entry as it was.
C17_FieldsSetAtMostOnce ==
    \A i \in 1..Len(logCalls) :
        (\E j \in 1..(i - 1) : logCalls[j].field = logCalls[i].field) =>
            /\ logCalls[i].after.panicked
            /\ logCalls[i].after = [logCalls[i].before EXCEPT !.panicked = TRUE]

(***************************************************************************)
(* Claims about CachedDirEntries (checked under SpecEntries)               *)
(***************************************************************************)
\* C18: for every listing, one that repeats a name included, ByName is
\* exactly the entries of InOrder keyed by name: every entry of InOrder is
\* the value of ByName at its name, and ByName has as many entries as InOrder.
C18_ByNameIsInOrder ==
    built.done =>
        /\ built.value.InOrder = listed
        /\ \A i \in 1..Len(built.value.InOrder) :
               /\ built.value.InOrder[i].Name \in DOMAIN built.value.ByName
               /\ built.value.ByName[built.value.InOrder[i].Name] = built.value.InOrder[i]
        /\ Cardinality(DOMAIN built.value.ByName) = Len(built.value.InOrder)

(***************************************************************************)
(* Claims about concurrent listings (checked under SpecFlight)             *)
(***************************************************************************)
\* Calls t and u were under way at the same time: one arrived while the
\* other had arrived and not returned.
Overlap(t, u) == t \in callers[u].seen \/ u \in callers[t].seen

\* C14: ListDirEntries calls for one path that arrive while no valid entry
\* exists and are under way together are served by one invocation of the
\* loader and return the identical listing or the identical error.
C14_OneLoadForConcurrentCallers ==
    \A t, u \in Threads :
        ( /\ t # u
          /\ callers[t].pc = "done" /\ callers[u].pc = "done"
          /\ callers[t].missed /\ callers[u].missed
          /\ Overlap(t, u) ) =>
            /\ callers[t].load = callers[u].load
            /\ callers[t].listing = callers[u].listing
            /\ callers[t].err = callers[u].err

\* Every thread arrived at an empty cache while the others were under way,
\* the loader ran once and all of them returned its listing.
C14_Witness ==
    /\ \A t \in Threads : callers[t].pc = "done" /\ callers[t].missed
    /\ \A t, u \in Threads : t # u => Overlap(t, u)
    /\ loads = 1
    /\ \A t \in Threads : callers[t].err = NoErr /\ callers[t].listing = device
    /\ device # <<>>

====
